---- MODULE Spec2Model ----
(***************************************************************************)
(* Order store and message handlers of pubg_donat_bot.py.                  *)
(*                                                                         *)
(* The bot is a single asyncio process: a handler runs without interruption *)
(* up to its next `await`, where other handlers may run.  Every action     *)
(* below is one such segment of one handler.  Each handler opens its own   *)
(* sqlite connection, so a write becomes visible to the other handlers at  *)
(* its commit, and sqlite lets one connection write at a time (a second    *)
(* writer waits in its busy handler until the first one commits).          *)
(*                                                                         *)
(* Texts are modelled by their parsed parts: callback data "opt_100_100"   *)
(* is the record [uc |-> 100, cents |-> 100], the label "100 UC" and the   *)
(* invoice payload "pay_100_<uid>" are records of the values formatted     *)
(* into them.  Time is not modelled: every created_at is the same second.  *)
(***************************************************************************)
EXTENDS Integers, Sequences, FiniteSets, TLC

VARIABLES
    orders,           \* committed rows of table orders, in rowid order
    sqlite_sequence,  \* AUTOINCREMENT high-water mark of table orders
    writer,           \* handler slot holding sqlite's write lock, 0 if none
    PROVIDER_TOKEN,   \* whether the payments provider token is configured
    invoices,         \* invoices sent to users and not yet paid
    task,             \* per handler slot: position and local variables
    nops,             \* number of updates dispatched so far
    returned          \* ids returned by add_order, in order of return

vars == <<orders, sqlite_sequence, writer, PROVIDER_TOKEN, invoices, task, nops, returned>>

\* ------------------------------------------------------------------ bounds
MaxOrders == 2
MaxOps == 4

\* Handler coroutines that can be in flight together.
Slots == {1, 2}

\* Senders of updates: an administrator and a user who is not one.
Users == {2, 3}

\* ----------------------------------------------------------- configuration
\* ADMIN_IDS="1,2": two administrators, one of whom (2) also sends updates.
ADMIN_IDS == <<1, 2>>

\* Callback data of the package buttons, parsed; of the two buttons the inputs
\* are bounded to "opt_100_100" ("opt_500_400" differs only in its numbers).
Packages == {[uc |-> 100, cents |-> 100]}

NoData == [uc |-> 0, cents |-> 0]

Args == {[isdigit |-> FALSE, int |-> 0]} \cup {[isdigit |-> TRUE, int |-> n] : n \in 1..MaxOrders}

NoArgs == [isdigit |-> FALSE, int |-> 0]

IsAdmin(u) == \E i \in 1..Len(ADMIN_IDS) : ADMIN_IDS[i] = u

\* ------------------------------------------------------------------- store
NoRow == [id |-> 0, user_id |-> 0, username |-> "", option |-> [kind |-> "none", uc |-> 0, uid |-> 0],
          amount |-> 0, status |-> "none", created_at |-> 0, note |-> "NULL"]

\* user.username or "": sender 2 has a username, sender 3 has none.
Username(u) == IF u = 2 THEN "user2" ELSE ""

UcLabel(uc) == [kind |-> "UC", uc |-> uc, uid |-> 0]

PayPayload(uc, uid) == [kind |-> "pay", uc |-> uc, uid |-> uid]

\* created_at DEFAULT CURRENT_TIMESTAMP has a resolution of one second; the
\* INSERTs of a run all fall into one second.
CURRENT_TIMESTAMP == 1

NewRow(id, user_id, option, amount, status) ==
    [id |-> id, user_id |-> user_id, username |-> Username(user_id), option |-> option,
     amount |-> amount, status |-> status, created_at |-> CURRENT_TIMESTAMP, note |-> "NULL"]

RECURSIVE MaxRowid(_)
MaxRowid(tbl) ==
    IF tbl = <<>> THEN 0
    ELSE LET m == MaxRowid(Tail(tbl)) IN IF Head(tbl).id > m THEN Head(tbl).id ELSE m

NextRowid(tbl, seq) == (IF seq > MaxRowid(tbl) THEN seq ELSE MaxRowid(tbl)) + 1

SelectById(tbl, id) ==
    IF \E i \in 1..Len(tbl) : tbl[i].id = id
    THEN tbl[CHOOSE i \in 1..Len(tbl) : tbl[i].id = id /\ \A j \in 1..(i-1) : tbl[j].id # id]
    ELSE NoRow

\* Faulty variant: the UPDATE without its WHERE clause.
UpdateStatusEveryRow(tbl, id, st) ==
    [i \in 1..Len(tbl) |-> [tbl[i] EXCEPT !.status = st]]

\* Faulty variant: the UPDATE also setting another column.
UpdateStatusAndNote(tbl, id, st) ==
    [i \in 1..Len(tbl) |-> IF tbl[i].id = id THEN [tbl[i] EXCEPT !.status = st, !.note = st]
                                             ELSE tbl[i]]

UpdateStatus(tbl, id, st) ==
    [i \in 1..Len(tbl) |-> IF tbl[i].id = id THEN [tbl[i] EXCEPT !.status = st] ELSE tbl[i]]

RECURSIVE WhereUser(_, _)
WhereUser(tbl, u) ==
    IF tbl = <<>> THEN <<>>
    ELSE IF Head(tbl).user_id = u THEN <<Head(tbl)>> \o WhereUser(Tail(tbl), u)
         ELSE WhereUser(Tail(tbl), u)

RECURSIVE InsertDesc(_, _)
InsertDesc(r, s) ==
    IF s = <<>> THEN <<r>>
    ELSE IF r.id >= Head(s).id THEN <<r>> \o s
         ELSE <<Head(s)>> \o InsertDesc(r, Tail(s))

\* Faulty variant: the query without ORDER BY id DESC.
OrderByIdAsc(s) == s

RECURSIVE OrderByIdDesc(_)
OrderByIdDesc(s) ==
    IF s = <<>> THEN <<>> ELSE InsertDesc(Head(s), OrderByIdDesc(Tail(s)))

SelectByUser(tbl, u) == OrderByIdDesc(WhereUser(tbl, u))

\* Faulty variant: two connections writing at once.
WriteLockIgnored == TRUE

WriteLockFree == writer = 0

\* ------------------------------------------------------------ handler slots
IdleTask ==
    [pc |-> "idle", op |-> "none", from_user |-> 0, args |-> NoArgs, data |-> NoData,
     row |-> NoRow, order_id |-> 0, result |-> "none", raised |-> FALSE,
     notif |-> <<>>, rows |-> <<>>, wrote |-> FALSE]

Free(h) == task[h].pc = "idle"

\* A new update is handled by a fresh coroutine; frames are interchangeable, so
\* the lowest free slot takes it.
Dispatch(h, o, u, a, d, first) ==
    /\ Free(h)
    /\ \A g \in Slots : g < h => ~Free(g)
    /\ nops < MaxOps
    /\ nops' = nops + 1
    /\ task' = [task EXCEPT ![h] = [IdleTask EXCEPT !.pc = first, !.op = o, !.from_user = u,
                                                    !.args = a, !.data = d]]

Init ==
    /\ orders = <<>>
    /\ sqlite_sequence = 0
    /\ writer = 0
    /\ PROVIDER_TOKEN \in BOOLEAN
    /\ invoices = {}
    /\ task = [h \in Slots |-> IdleTask]
    /\ nops = 0
    /\ returned = <<>>

\* Whether an outbound request to the chat transport goes through; a failed
\* request raises in the awaiting handler.
SendOutcomes == BOOLEAN

Put(h, t) == task' = [task EXCEPT ![h] = t]

\* An awaited send outside any try block: the handler goes on to `next` when the
\* send goes through, and ends with the exception when it does not.
Unguarded(t, ok, res, next) ==
    [t EXCEPT !.result = res, !.raised = ~ok, !.pc = IF ok THEN next ELSE "done"]

\* Faulty variant: an error reply without its return.
ErrorExitFallThrough == "update"

\* `return` after an error reply.
ErrorExit == "done"

\* One iteration of `for admin in ADMIN_IDS: try: send_message(admin, ...) except: pass`.
NextAdmin(t) == Len(t.notif) + 1

\* Faulty variant: the admin loop without try/except.
AfterAttemptNoTry(t, ok) ==
    LET n == Append(t.notif, [to |-> ADMIN_IDS[NextAdmin(t)], ok |-> ok])
    IN [t EXCEPT !.notif = n, !.raised = ~ok,
                 !.pc = IF ok /\ Len(n) < Len(ADMIN_IDS) THEN "notify" ELSE "done"]

AfterAttempt(t, ok) ==
    LET n == Append(t.notif, [to |-> ADMIN_IDS[NextAdmin(t)], ok |-> ok])
    IN [t EXCEPT !.notif = n, !.pc = IF Len(n) >= Len(ADMIN_IDS) THEN "done" ELSE "notify"]

AdminLoopEntry == IF Len(ADMIN_IDS) = 0 THEN "done" ELSE "notify"

NotifyAdmin(h, o) ==
    /\ task[h].pc = "notify"
    /\ task[h].op = o
    /\ \E ok \in SendOutcomes : Put(h, AfterAttempt(task[h], ok))
    /\ UNCHANGED <<orders, sqlite_sequence, writer, PROVIDER_TOKEN, invoices, nops, returned>>

\* ---------------------------------------------------------------- add_order
\* The (option, amount, status) a handler passes to add_order.
OptionOf(t) ==
    IF t.op = "payment" THEN PayPayload(t.data.uc, t.from_user) ELSE UcLabel(t.data.uc)

\* Faulty variant: got_payment omitting status="done".
StatusOfDefault(t) == "pending"

StatusOf(t) == IF t.op = "payment" THEN "done" ELSE "pending"

AddOrderInsert(h) ==
    /\ task[h].pc = "insert"
    /\ WriteLockFree
    /\ writer' = h
    /\ Put(h, [task[h] EXCEPT !.order_id = NextRowid(orders, sqlite_sequence), !.pc = "commit"])
    /\ UNCHANGED <<orders, sqlite_sequence, PROVIDER_TOKEN, invoices, nops, returned>>

AddOrderCommit(h) ==
    /\ task[h].pc = "commit"
    /\ task[h].op \in {"opt", "payment"}
    /\ orders' = Append(orders, NewRow(task[h].order_id, task[h].from_user, OptionOf(task[h]),
                                       task[h].data.cents, StatusOf(task[h])))
    /\ sqlite_sequence' = task[h].order_id
    /\ writer' = 0
    /\ returned' = Append(returned, task[h].order_id)
    /\ Put(h, [task[h] EXCEPT !.pc = "reply", !.wrote = TRUE])
    /\ UNCHANGED <<PROVIDER_TOKEN, invoices, nops>>

\* The store holds at most MaxOrders rows: no creation is dispatched beyond that.
Creating(g) ==
    /\ task[g].pc \in {"answer_cb", "insert", "commit"}
    /\ task[g].op = "payment" \/ (task[g].op = "opt" /\ ~PROVIDER_TOKEN)

Room == Len(orders) + Cardinality({g \in Slots : Creating(g)}) < MaxOrders

\* ----------------------------------------------------------- process_option
RecvCallback(h) ==
    /\ PROVIDER_TOKEN \/ Room
    /\ \E u \in Users, d \in Packages : Dispatch(h, "opt", u, NoArgs, d, "answer_cb")
    /\ UNCHANGED <<orders, sqlite_sequence, writer, PROVIDER_TOKEN, invoices, returned>>

OptAnswer(h) ==
    /\ task[h].pc = "answer_cb"
    /\ \E ok \in SendOutcomes :
          Put(h, Unguarded(task[h], ok, "none", IF PROVIDER_TOKEN THEN "send_invoice" ELSE "insert"))
    /\ UNCHANGED <<orders, sqlite_sequence, writer, PROVIDER_TOKEN, invoices, nops, returned>>

OptSendInvoice(h) ==
    /\ task[h].pc = "send_invoice"
    /\ \E ok \in SendOutcomes :
          /\ Put(h, Unguarded(task[h], ok, "Invoice", "done"))
          /\ invoices' = IF ok THEN invoices \cup {[user |-> task[h].from_user, pkg |-> task[h].data]}
                         ELSE invoices
    /\ UNCHANGED <<orders, sqlite_sequence, writer, PROVIDER_TOKEN, nops, returned>>

OptReply(h) ==
    /\ task[h].pc = "reply"
    /\ task[h].op = "opt"
    /\ \E ok \in SendOutcomes : Put(h, Unguarded(task[h], ok, "OK", AdminLoopEntry))
    /\ UNCHANGED <<orders, sqlite_sequence, writer, PROVIDER_TOKEN, invoices, nops, returned>>

OptNotify(h) == NotifyAdmin(h, "opt")

\* ----------------------------------------------------------------- cmd_paid
\* Faulty variant: the status test of line 129 left out.
PaidAllowedAnyStatus(row) == TRUE

\* Faulty variant: line 129 refusing only done orders.
PaidAllowedNotDone(row) == row.status # "done"

PaidAllowed(row) == row.status = "pending"

RecvPaid(h) ==
    /\ \E u \in Users, a \in Args : Dispatch(h, "paid", u, a, NoData, "args")
    /\ UNCHANGED <<orders, sqlite_sequence, writer, PROVIDER_TOKEN, invoices, returned>>

PaidArgs(h) ==
    /\ task[h].pc = "args"
    /\ task[h].op = "paid"
    /\ IF task[h].args.isdigit
       THEN Put(h, [task[h] EXCEPT !.pc = "select"])
       ELSE \E ok \in SendOutcomes : Put(h, Unguarded(task[h], ok, "Usage", ErrorExit))
    /\ UNCHANGED <<orders, sqlite_sequence, writer, PROVIDER_TOKEN, invoices, nops, returned>>

PaidBranch(row) ==
    IF row = NoRow THEN "notfound"
    ELSE IF ~PaidAllowed(row) THEN "refused"
    ELSE "update"

\* Faulty variant: the SELECT of /paid restricted to the sender's own orders.
PaidSelectOwnerOnly(h) ==
    /\ task[h].pc = "select"
    /\ task[h].op = "paid"
    /\ LET found == SelectById(orders, task[h].args.int)
           row == IF found.user_id = task[h].from_user THEN found ELSE NoRow
       IN Put(h, [task[h] EXCEPT !.row = row, !.pc = PaidBranch(row)])
    /\ UNCHANGED <<orders, sqlite_sequence, writer, PROVIDER_TOKEN, invoices, nops, returned>>

PaidSelect(h) ==
    /\ task[h].pc = "select"
    /\ task[h].op = "paid"
    /\ LET row == SelectById(orders, task[h].args.int)
       IN Put(h, [task[h] EXCEPT !.row = row, !.pc = PaidBranch(row)])
    /\ UNCHANGED <<orders, sqlite_sequence, writer, PROVIDER_TOKEN, invoices, nops, returned>>

PaidReplyError(h) ==
    /\ task[h].pc \in {"notfound", "refused"}
    /\ task[h].op = "paid"
    /\ \E ok \in SendOutcomes :
          Put(h, Unguarded(task[h], ok,
                           IF task[h].pc = "notfound" THEN "NotFound" ELSE "InvalidState", ErrorExit))
    /\ UNCHANGED <<orders, sqlite_sequence, writer, PROVIDER_TOKEN, invoices, nops, returned>>

PaidUpdate(h) ==
    /\ task[h].pc = "update"
    /\ task[h].op = "paid"
    /\ WriteLockFree
    /\ writer' = h
    /\ Put(h, [task[h] EXCEPT !.pc = "commit"])
    /\ UNCHANGED <<orders, sqlite_sequence, PROVIDER_TOKEN, invoices, nops, returned>>

PaidCommit(h) ==
    /\ task[h].pc = "commit"
    /\ task[h].op = "paid"
    /\ orders' = UpdateStatus(orders, task[h].args.int, "paid_waiting")
    /\ writer' = 0
    /\ Put(h, [task[h] EXCEPT !.pc = "reply", !.wrote = TRUE])
    /\ UNCHANGED <<sqlite_sequence, PROVIDER_TOKEN, invoices, nops, returned>>

PaidReply(h) ==
    /\ task[h].pc = "reply"
    /\ task[h].op = "paid"
    /\ \E ok \in SendOutcomes : Put(h, Unguarded(task[h], ok, "OK", AdminLoopEntry))
    /\ UNCHANGED <<orders, sqlite_sequence, writer, PROVIDER_TOKEN, invoices, nops, returned>>

PaidNotify(h) == NotifyAdmin(h, "paid")

\* -------------------------------------------------------------- cmd_fulfill
\* Faulty variant: the ADMIN_IDS test of line 144 left out.
AuthorizedAnyone(u) == TRUE

Authorized(u) == IsAdmin(u)

\* Faulty variant: the done test of line 158 left out.
FulfillNeverBlocked(row) == FALSE

\* Faulty variant: /fulfill accepting only orders whose payment was reported.
FulfillRequiresPaid(row) == row.status # "paid_waiting"

FulfillBlocked(row) == row.status = "done"

RecvFulfill(h) ==
    /\ \E u \in Users, a \in Args : Dispatch(h, "fulfill", u, a, NoData, "args")
    /\ UNCHANGED <<orders, sqlite_sequence, writer, PROVIDER_TOKEN, invoices, returned>>

FulfillArgs(h) ==
    /\ task[h].pc = "args"
    /\ task[h].op = "fulfill"
    /\ IF ~Authorized(task[h].from_user)
       THEN \E ok \in SendOutcomes : Put(h, Unguarded(task[h], ok, "Unauthorized", ErrorExit))
       ELSE IF ~task[h].args.isdigit
       THEN \E ok \in SendOutcomes : Put(h, Unguarded(task[h], ok, "Usage", ErrorExit))
       ELSE Put(h, [task[h] EXCEPT !.pc = "select"])
    /\ UNCHANGED <<orders, sqlite_sequence, writer, PROVIDER_TOKEN, invoices, nops, returned>>

FulfillBranch(row) ==
    IF row = NoRow THEN "notfound"
    ELSE IF FulfillBlocked(row) THEN "refused"
    ELSE "update"

FulfillSelect(h) ==
    /\ task[h].pc = "select"
    /\ task[h].op = "fulfill"
    /\ LET row == SelectById(orders, task[h].args.int)
       IN Put(h, [task[h] EXCEPT !.row = row, !.pc = FulfillBranch(row)])
    /\ UNCHANGED <<orders, sqlite_sequence, writer, PROVIDER_TOKEN, invoices, nops, returned>>

FulfillReplyError(h) ==
    /\ task[h].pc \in {"notfound", "refused"}
    /\ task[h].op = "fulfill"
    /\ \E ok \in SendOutcomes :
          Put(h, Unguarded(task[h], ok,
                           IF task[h].pc = "notfound" THEN "NotFound" ELSE "AlreadyDone", ErrorExit))
    /\ UNCHANGED <<orders, sqlite_sequence, writer, PROVIDER_TOKEN, invoices, nops, returned>>

FulfillUpdate(h) ==
    /\ task[h].pc = "update"
    /\ task[h].op = "fulfill"
    /\ WriteLockFree
    /\ writer' = h
    /\ Put(h, [task[h] EXCEPT !.pc = "commit"])
    /\ UNCHANGED <<orders, sqlite_sequence, PROVIDER_TOKEN, invoices, nops, returned>>

FulfillCommit(h) ==
    /\ task[h].pc = "commit"
    /\ task[h].op = "fulfill"
    /\ orders' = UpdateStatus(orders, task[h].args.int, "done")
    /\ writer' = 0
    /\ Put(h, [task[h] EXCEPT !.pc = "reply", !.wrote = TRUE])
    /\ UNCHANGED <<sqlite_sequence, PROVIDER_TOKEN, invoices, nops, returned>>

FulfillReply(h) ==
    /\ task[h].pc = "reply"
    /\ task[h].op = "fulfill"
    /\ \E ok \in SendOutcomes : Put(h, Unguarded(task[h], ok, "OK", "notify"))
    /\ UNCHANGED <<orders, sqlite_sequence, writer, PROVIDER_TOKEN, invoices, nops, returned>>

\* try: send_message(row[1], ...) except: pass
FulfillNotify(h) ==
    /\ task[h].pc = "notify"
    /\ task[h].op = "fulfill"
    /\ \E ok \in SendOutcomes :
          Put(h, [task[h] EXCEPT !.notif = <<[to |-> task[h].row.user_id, ok |-> ok]>>,
                                 !.pc = "done"])
    /\ UNCHANGED <<orders, sqlite_sequence, writer, PROVIDER_TOKEN, invoices, nops, returned>>

\* ---------------------------------------------------------------- my_orders
RecvMyOrders(h) ==
    /\ \E u \in Users : Dispatch(h, "my_orders", u, NoArgs, NoData, "select")
    /\ UNCHANGED <<orders, sqlite_sequence, writer, PROVIDER_TOKEN, invoices, returned>>

MyOrdersSelect(h) ==
    /\ task[h].pc = "select"
    /\ task[h].op = "my_orders"
    /\ Put(h, [task[h] EXCEPT !.rows = SelectByUser(orders, task[h].from_user), !.pc = "reply"])
    /\ UNCHANGED <<orders, sqlite_sequence, writer, PROVIDER_TOKEN, invoices, nops, returned>>

MyOrdersReply(h) ==
    /\ task[h].pc = "reply"
    /\ task[h].op = "my_orders"
    /\ \E ok \in SendOutcomes :
          Put(h, Unguarded(task[h], ok, IF task[h].rows = <<>> THEN "Empty" ELSE "List", "done"))
    /\ UNCHANGED <<orders, sqlite_sequence, writer, PROVIDER_TOKEN, invoices, nops, returned>>

\* -------------------------------------------------------------- got_payment
\* A successful-payment update is sent by the platform for an invoice the bot sent.
RecvPayment(h) ==
    /\ Room
    /\ \E inv \in invoices :
          /\ Dispatch(h, "payment", inv.user, NoArgs, inv.pkg, "insert")
          /\ invoices' = invoices \ {inv}
    /\ UNCHANGED <<orders, sqlite_sequence, writer, PROVIDER_TOKEN, returned>>

PaymentReply(h) ==
    /\ task[h].pc = "reply"
    /\ task[h].op = "payment"
    /\ \E ok \in SendOutcomes : Put(h, Unguarded(task[h], ok, "OK", AdminLoopEntry))
    /\ UNCHANGED <<orders, sqlite_sequence, writer, PROVIDER_TOKEN, invoices, nops, returned>>

PaymentNotify(h) == NotifyAdmin(h, "payment")

\* The handler has returned (or raised): its frame is dropped.
Return(h) ==
    /\ task[h].pc = "done"
    /\ Put(h, IdleTask)
    /\ UNCHANGED <<orders, sqlite_sequence, writer, PROVIDER_TOKEN, invoices, nops, returned>>

\* ------------------------------------------------------------ specifications
Recv(h) ==
    \/ RecvCallback(h)
    \/ RecvPaid(h)
    \/ RecvFulfill(h)
    \/ RecvMyOrders(h)
    \/ RecvPayment(h)

Run(h) ==
    \/ OptAnswer(h) \/ OptSendInvoice(h) \/ AddOrderInsert(h) \/ AddOrderCommit(h)
    \/ OptReply(h) \/ OptNotify(h)
    \/ PaidArgs(h) \/ PaidSelect(h) \/ PaidReplyError(h) \/ PaidUpdate(h) \/ PaidCommit(h)
    \/ PaidReply(h) \/ PaidNotify(h)
    \/ FulfillArgs(h) \/ FulfillSelect(h) \/ FulfillReplyError(h) \/ FulfillUpdate(h)
    \/ FulfillCommit(h) \/ FulfillReply(h) \/ FulfillNotify(h)
    \/ MyOrdersSelect(h) \/ MyOrdersReply(h)
    \/ PaymentReply(h) \/ PaymentNotify(h)
    \/ Return(h)

\* Handlers interleave at their awaits.
Next == \E h \in Slots : Recv(h) \/ Run(h)

Spec == Init /\ [][Next]_vars

\* Operations executed one at a time: an update is dispatched only when no
\* handler is running.
Quiet == \A g \in Slots : Free(g)

SeqNext == \E h \in Slots : (Quiet /\ Recv(h)) \/ Run(h)

SeqSpec == Init /\ [][SeqNext]_vars

\* ================================================================== claims
StepOf(h) == task'[h] # task[h]

Ended(h) == task[h].pc = "done"

Rank(st) == IF st = "pending" THEN 1 ELSE IF st = "paid_waiting" THEN 2 ELSE 3

Stored(id) == SelectById(orders, id)

\* A handler's step changes the table only if that step is its commit.
WritesAreCommits ==
    \A h \in Slots : (StepOf(h) /\ orders' # orders) => (task'[h].wrote /\ ~task[h].wrote)

\* C1: with operations executed one at a time, every row stays in the table
\* with its id and its status never goes back in pending < paid_waiting < done;
\* a row that is done is done in the next state.
C1_Step ==
    /\ Len(orders') >= Len(orders)
    /\ \A i \in 1..Len(orders) :
          /\ orders'[i].id = orders[i].id
          /\ Rank(orders'[i].status) >= Rank(orders[i].status)
          /\ orders[i].status = "done" => orders'[i].status = "done"

C1_StatusMonotonic == [][C1_Step]_vars

C1_Witness ==
    \E h \in Slots :
       /\ task[h].op = "fulfill" /\ task[h].wrote
       /\ task[h].row.status = "paid_waiting"
       /\ Stored(task[h].args.int).status = "done"

\* C2: with operations executed one at a time, /paid on a pending order sets
\* it to paid_waiting and replies success; /paid on an order that is not
\* pending replies InvalidState and writes nothing; the only step of a /paid
\* handler that changes the table takes the addressed order from pending to
\* paid_waiting.
C2_State ==
    \A h \in Slots :
       (task[h].op = "paid" /\ Ended(h) /\ task[h].row # NoRow) =>
          /\ task[h].row.status = "pending" =>
                /\ task[h].result = "OK"
                /\ task[h].wrote
                /\ Stored(task[h].args.int) = [task[h].row EXCEPT !.status = "paid_waiting"]
          /\ task[h].row.status # "pending" =>
                /\ task[h].result = "InvalidState"
                /\ ~task[h].wrote
                /\ Stored(task[h].args.int) = task[h].row

C2_Step ==
    \A h \in Slots :
       (StepOf(h) /\ task[h].op = "paid" /\ orders' # orders) =>
          /\ Stored(task[h].args.int).status = "pending"
          /\ orders' = UpdateStatus(orders, task[h].args.int, "paid_waiting")

C2_ReportPaymentOnce == [](C2_State) /\ [][C2_Step /\ WritesAreCommits]_vars

C2_Witness ==
    \E h \in Slots :
       /\ task[h].op = "paid" /\ Ended(h)
       /\ task[h].result = "InvalidState"
       /\ task[h].row.status = "paid_waiting"

\* C3: with operations executed one at a time, /fulfill by an administrator on
\* a paid_waiting order sets it to done and replies success; /fulfill by an
\* administrator on a done order replies AlreadyDone, writes nothing and
\* leaves the order as it was read.
C3_State ==
    \A h \in Slots :
       (task[h].op = "fulfill" /\ Ended(h) /\ IsAdmin(task[h].from_user)) =>
          /\ task[h].row.status = "paid_waiting" =>
                /\ task[h].result = "OK"
                /\ task[h].wrote
                /\ Stored(task[h].args.int) = [task[h].row EXCEPT !.status = "done"]
          /\ task[h].row.status = "done" =>
                /\ task[h].result = "AlreadyDone"
                /\ ~task[h].wrote
                /\ Stored(task[h].args.int) = task[h].row

C3_Step ==
    \A h \in Slots :
       (StepOf(h) /\ task[h].op = "fulfill" /\ Stored(task[h].args.int).status = "done") =>
          orders' = orders

C3_FulfillThenAlreadyDone == [](C3_State) /\ [][C3_Step /\ WritesAreCommits]_vars

C3_Witness ==
    \E h \in Slots :
       /\ task[h].op = "fulfill" /\ Ended(h)
       /\ task[h].result = "AlreadyDone"
       /\ task[h].row.option.kind = "UC"

\* C4: under any interleaving, a /fulfill from a sender outside ADMIN_IDS ends
\* with the Unauthorized reply without looking the order up, whatever the
\* argument and the order's status, and none of its steps changes the table.
C4_State ==
    \A h \in Slots :
       (task[h].op = "fulfill" /\ ~IsAdmin(task[h].from_user)) =>
          /\ task[h].pc \in {"args", "done"}
          /\ task[h].row = NoRow
          /\ ~task[h].wrote
          /\ task[h].notif = <<>>
          /\ Ended(h) => task[h].result = "Unauthorized"

C4_Step ==
    \A h \in Slots :
       (StepOf(h) /\ task[h].op = "fulfill" /\ ~IsAdmin(task[h].from_user)) => orders' = orders

C4_NonAdminUnauthorized == [](C4_State) /\ [][C4_Step]_vars

C4_Witness ==
    \E h \in Slots :
       /\ task[h].op = "fulfill" /\ Ended(h)
       /\ ~IsAdmin(task[h].from_user)
       /\ task[h].result = "Unauthorized"
       /\ Stored(task[h].args.int).status = "pending"

\* C5: under any interleaving, the rows of the table have pairwise distinct,
\* increasing ids; the ids add_order has returned are strictly increasing in
\* order of return; the id a call returned is the id of one row, which holds
\* that call's user and option; and sqlite_sequence is never below a used id.
C5_UniqueIncreasingIds ==
    /\ \A i, j \in 1..Len(orders) : i < j => orders[i].id < orders[j].id
    /\ \A i, j \in 1..Len(returned) : i < j => returned[i] < returned[j]
    /\ Len(returned) = Len(orders)
    /\ \A i \in 1..Len(orders) : orders[i].id >= 1 /\ orders[i].id <= sqlite_sequence
    /\ \A h \in Slots :
          (task[h].op \in {"opt", "payment"} /\ task[h].wrote) =>
             /\ \E i \in 1..Len(returned) : returned[i] = task[h].order_id
             /\ Stored(task[h].order_id).user_id = task[h].from_user
             /\ Stored(task[h].order_id).option = OptionOf(task[h])
             /\ \A g \in Slots \ {h} :
                   (task[g].op \in {"opt", "payment"} /\ task[g].pc # "insert"
                      /\ task[g].pc # "answer_cb" /\ task[g].pc # "send_invoice"
                      /\ ~(task[g].op = "opt" /\ PROVIDER_TOKEN))
                   => task[g].order_id # task[h].order_id

C5_Witness ==
    /\ Len(orders) = 2
    /\ \A h \in Slots : task[h].op \in {"opt", "payment"} /\ task[h].wrote
    /\ task[1].order_id # task[2].order_id

\* C6: under any interleaving, a row inserted by got_payment has status done
\* in every state in which it is in the table, and no step of a got_payment
\* handler changes a row that was already there.
C6_State ==
    \A i \in 1..Len(orders) : orders[i].option.kind = "pay" => orders[i].status = "done"

C6_Step ==
    \A h \in Slots :
       (StepOf(h) /\ task[h].op = "payment") =>
          /\ Len(orders') >= Len(orders)
          /\ SubSeq(orders', 1, Len(orders)) = orders

C6_DirectPaymentDone == [](C6_State) /\ [][C6_Step]_vars

C6_Witness ==
    /\ Len(orders) = 2
    /\ orders[2].option.kind = "pay"
    /\ \E h \in Slots : task[h].op = "payment" /\ task[h].wrote /\ task[h].order_id = 2

\* C7: with operations executed one at a time, the rows my_orders fetched are
\* exactly the rows of the table whose user_id is the sender, each once, in
\* strictly decreasing id order; the reply is the "no orders" text exactly
\* when there are none; and the handler writes nothing.
C7_State ==
    \A h \in Slots :
       (task[h].op = "my_orders" /\ task[h].pc \in {"reply", "done"}) =>
          LET rows == task[h].rows
              mine == {i \in 1..Len(orders) : orders[i].user_id = task[h].from_user}
          IN /\ Len(rows) = Cardinality(mine)
             /\ \A i \in mine : \E k \in 1..Len(rows) : rows[k] = orders[i]
             /\ \A k \in 1..Len(rows) : rows[k].user_id = task[h].from_user
             /\ \A k \in 1..Len(rows) : \E i \in mine : rows[k] = orders[i]
             /\ \A k \in 1..(Len(rows) - 1) : rows[k].id > rows[k + 1].id
             /\ mine = {} => rows = <<>>
             /\ Ended(h) => task[h].result = (IF mine = {} THEN "Empty" ELSE "List")
             /\ ~task[h].wrote

C7_Step ==
    \A h \in Slots : (StepOf(h) /\ task[h].op = "my_orders") => orders' = orders

C7_ListOrders == [](C7_State) /\ [][C7_Step]_vars

C7_Witness ==
    \E h \in Slots :
       /\ task[h].op = "my_orders" /\ Ended(h)
       /\ Len(task[h].rows) = 1
       /\ Len(orders) = 2

\* C8: with operations executed one at a time, a /paid or /fulfill that ends
\* with the NotFound, InvalidState or AlreadyDone reply has written nothing,
\* has attempted no notification, and none of its steps changed the table.
Failures == {"NotFound", "InvalidState", "AlreadyDone"}

C8_State ==
    \A h \in Slots :
       (task[h].op \in {"paid", "fulfill"} /\ task[h].result \in Failures) =>
          /\ ~task[h].wrote
          /\ task[h].notif = <<>>
          /\ Ended(h)
          /\ Stored(task[h].args.int) = task[h].row

C8_Step ==
    \A h \in Slots :
       (StepOf(h) /\ task[h].op \in {"paid", "fulfill"}
          /\ task[h].pc \in {"args", "select", "notfound", "refused"}) => orders' = orders

C8_FailuresChangeNothing == [](C8_State) /\ [][C8_Step /\ WritesAreCommits]_vars

C8_Witness ==
    \E h \in Slots :
       /\ task[h].op = "fulfill" /\ Ended(h)
       /\ task[h].result = "NotFound"
       /\ Len(orders) = 1

\* C9: under any interleaving, once a handler has attempted an administrator
\* notification it attempts every administrator of ADMIN_IDS exactly once, in
\* list order, whatever the outcomes; a failed notification raises nothing
\* in the handler, leaves its success reply and its write in place, and no
\* notification step changes the table.  /fulfill attempts its one
\* notification, to the user of the row it read, once.
C9_State ==
    \A h \in Slots :
       /\ (task[h].op \in {"opt", "paid", "payment"} /\ task[h].notif # <<>>) =>
             /\ Len(task[h].notif) <= Len(ADMIN_IDS)
             /\ \A i \in 1..Len(task[h].notif) : task[h].notif[i].to = ADMIN_IDS[i]
             /\ Ended(h) <=> Len(task[h].notif) = Len(ADMIN_IDS)
             /\ ~task[h].raised
             /\ task[h].result = "OK"
             /\ task[h].wrote
       /\ (task[h].op = "fulfill" /\ task[h].notif # <<>>) =>
             /\ Len(task[h].notif) = 1
             /\ task[h].notif[1].to = task[h].row.user_id
             /\ Ended(h)
             /\ ~task[h].raised
             /\ task[h].result = "OK"
             /\ task[h].wrote

C9_Step ==
    \A h \in Slots : (StepOf(h) /\ task[h].pc = "notify") => orders' = orders

C9_NotificationFailureSwallowed == [](C9_State) /\ [][C9_Step]_vars

C9_Witness ==
    \E h \in Slots :
       /\ task[h].op = "paid" /\ Ended(h)
       /\ Len(task[h].notif) = 2
       /\ ~task[h].notif[1].ok
       /\ Stored(task[h].args.int).status = "paid_waiting"

\* C10: no failed outbound send keeps a handler from its write or from the
\* notifications that follow it: a package selection without a provider
\* token and a payment event end with a row written and every administrator
\* attempted, and a /paid or /fulfill that wrote ends with its notifications
\* attempted.
C10_AllSendFailuresIgnored ==
    \A h \in Slots :
       Ended(h) =>
          /\ (task[h].op = "opt" /\ ~PROVIDER_TOKEN) =>
                task[h].wrote /\ Len(task[h].notif) = Len(ADMIN_IDS)
          /\ task[h].op = "payment" =>
                task[h].wrote /\ Len(task[h].notif) = Len(ADMIN_IDS)
          /\ (task[h].op = "paid" /\ task[h].wrote) => Len(task[h].notif) = Len(ADMIN_IDS)
          /\ (task[h].op = "fulfill" /\ task[h].wrote) => Len(task[h].notif) = 1

\* C11: under any interleaving, a step of a /paid or /fulfill handler leaves
\* every row whose id is not the handler's argument as it was and adds or
\* removes no row, and a step of a creating handler leaves every row that was
\* already in the table as it was.
C11_Step ==
    \A h \in Slots :
       StepOf(h) =>
          /\ task[h].op \in {"paid", "fulfill"} =>
                /\ Len(orders') = Len(orders)
                /\ \A i \in 1..Len(orders) :
                      orders[i].id # task[h].args.int => orders'[i] = orders[i]
          /\ task[h].op \in {"opt", "payment", "my_orders"} =>
                /\ Len(orders') >= Len(orders)
                /\ SubSeq(orders', 1, Len(orders)) = orders

C11_OtherOrdersUntouched == [][C11_Step]_vars

C11_Witness ==
    /\ Len(orders) = 2
    /\ orders[1].status = "paid_waiting"
    /\ orders[2].status = "done"
    /\ \E h, g \in Slots :
          /\ task[h].op = "paid" /\ task[h].wrote /\ task[h].args.int = orders[1].id
          /\ task[g].op = "fulfill" /\ task[g].wrote /\ task[g].args.int = orders[2].id

\* C12: under any interleaving, no step removes a row or changes a row's id,
\* user_id, username, option, amount, created_at or note; and a row leaves
\* pending only in the commit of a /paid or /fulfill handler whose argument
\* is that row's id, which goes on to its success reply.
Frame(r) == [r EXCEPT !.status = "any"]

C12_Step ==
    /\ Len(orders') >= Len(orders)
    /\ \A i \in 1..Len(orders) :
          /\ Frame(orders'[i]) = Frame(orders[i])
          /\ (orders[i].status = "pending" /\ orders'[i].status # "pending") =>
                \E h \in Slots :
                   /\ StepOf(h)
                   /\ task[h].op \in {"paid", "fulfill"}
                   /\ task[h].args.int = orders[i].id
                   /\ task[h].pc = "commit"
                   /\ task'[h].pc = "reply"

C12_OnlyStatusChanges == [][C12_Step]_vars

C12_Witness ==
    /\ Len(orders) = 2
    /\ orders[1].status = "done"
    /\ orders[2].status = "pending"
    /\ orders[1].username # orders[2].username
    /\ \E h \in Slots : task[h].op = "fulfill" /\ task[h].wrote /\ task[h].args.int = orders[1].id

\* C13: an order that a /fulfill handler has set to done and reported as
\* fulfilled has status done, also when a /paid on the same order interleaves
\* with it.
C13_FulfilledStaysDone ==
    \A h \in Slots :
       (task[h].op = "fulfill" /\ task[h].wrote /\ task[h].result = "OK") =>
          Stored(task[h].args.int).status = "done"

\* C14: under any interleaving of /fulfill handlers, no two of them report
\* success for the same order and notify its requester.
C14_OneFulfillSucceeds ==
    \A h, g \in Slots :
       (h # g /\ task[h].op = "fulfill" /\ task[g].op = "fulfill"
          /\ task[h].args.int = task[g].args.int
          /\ task[h].result = "OK" /\ task[h].notif # <<>>)
       => ~(task[g].result = "OK" /\ task[g].notif # <<>>)

\* C15: with operations executed one at a time, /fulfill by an administrator
\* on an existing order that is not done (pending included) sets it to done
\* and replies success.
C15_FulfillFromAnyStatus ==
    \A h \in Slots :
       (task[h].op = "fulfill" /\ Ended(h) /\ IsAdmin(task[h].from_user)
          /\ task[h].row # NoRow /\ task[h].row.status # "done") =>
          /\ task[h].result = "OK"
          /\ task[h].wrote
          /\ Stored(task[h].args.int) = [task[h].row EXCEPT !.status = "done"]

C15_Witness ==
    \E h \in Slots :
       /\ task[h].op = "fulfill" /\ Ended(h)
       /\ task[h].row.status = "pending"
       /\ task[h].result = "OK"
       /\ Stored(task[h].args.int).status = "done"

\* C16: under any interleaving, every row's status is pending, paid_waiting
\* or done; a row enters the table pending when process_option inserts it and
\* done when got_payment inserts it; and a row becomes paid_waiting only in
\* the commit of a /paid handler addressed to it that read it as pending.
C16_State ==
    \A i \in 1..Len(orders) :
       /\ orders[i].status \in {"pending", "paid_waiting", "done"}
       /\ orders[i].status = "paid_waiting" => orders[i].option.kind = "UC"

C16_Step ==
    /\ \A i \in (Len(orders) + 1)..Len(orders') :
          \E h \in Slots :
             /\ StepOf(h)
             /\ task[h].order_id = orders'[i].id
             /\ \/ task[h].op = "opt" /\ orders'[i].status = "pending"
                \/ task[h].op = "payment" /\ orders'[i].status = "done"
    /\ \A i \in 1..Len(orders) :
          (i <= Len(orders') /\ orders'[i].status = "paid_waiting"
             /\ orders[i].status # "paid_waiting") =>
             \E h \in Slots :
                /\ StepOf(h)
                /\ task[h].op = "paid"
                /\ task[h].pc = "commit"
                /\ task[h].row.id = orders[i].id
                /\ task[h].row.status = "pending"

C16_StatusDomain == [](C16_State) /\ [][C16_Step]_vars

C16_Witness ==
    \E h \in Slots :
       /\ task[h].op = "paid" /\ task[h].wrote
       /\ task[h].row.status = "pending"
       /\ Stored(task[h].args.int).status = "paid_waiting"

\* C17: a /paid or /fulfill handler notifies only after its own write; the
\* write of a notifying /paid took the order from pending to paid_waiting;
\* and when a handler notifies, the order does not show the status the
\* handler had read.
C17_State ==
    \A h \in Slots :
       (task[h].op \in {"paid", "fulfill"} /\ (task[h].pc = "notify" \/ task[h].notif # <<>>)) =>
          task[h].wrote

C17_Step ==
    \A h \in Slots :
       /\ (StepOf(h) /\ task[h].op = "paid" /\ task[h].pc = "commit") =>
             /\ Stored(task[h].args.int).status = "pending"
             /\ orders' = UpdateStatus(orders, task[h].args.int, "paid_waiting")
       /\ (StepOf(h) /\ task[h].op \in {"paid", "fulfill"} /\ task[h].pc = "notify") =>
             Stored(task[h].args.int).status # task[h].row.status

C17_NotifyAfterOwnTransition == [](C17_State) /\ [][C17_Step]_vars

\* C18: with a provider token a package selection ends with an invoice sent
\* and no row inserted, and every row is one got_payment inserted, with
\* status done; without a provider token a package selection ends with its
\* one row inserted and no invoice is ever sent.
C18_Safe ==
    /\ PROVIDER_TOKEN =>
          /\ \A i \in 1..Len(orders) : orders[i].option.kind = "pay" /\ orders[i].status = "done"
          /\ \A h \in Slots : task[h].op = "opt" => ~task[h].wrote
    /\ ~PROVIDER_TOKEN =>
          /\ invoices = {}
          /\ \A i \in 1..Len(orders) : orders[i].option.kind = "UC"
          /\ \A h \in Slots : task[h].op # "payment" /\ task[h].result # "Invoice"

C18_SelectionOutcome ==
    /\ C18_Safe
    /\ \A h \in Slots :
          (task[h].op = "opt" /\ Ended(h)) =>
             IF PROVIDER_TOKEN THEN task[h].result = "Invoice"
             ELSE task[h].wrote /\ Stored(task[h].order_id) # NoRow

\* C19: with operations executed one at a time, a /paid from a sender who is
\* not the order's user ends as the order's status alone decides: on pending
\* with the success reply and the order paid_waiting, on any other status
\* with InvalidState and the order as it was.
C19_CallerIrrelevant ==
    \A h \in Slots :
       LET cur == Stored(task[h].args.int)
       IN (task[h].op = "paid" /\ Ended(h) /\ task[h].args.isdigit
             /\ cur # NoRow /\ cur.user_id # task[h].from_user) =>
             \/ /\ task[h].result = "OK"
                /\ task[h].wrote
                /\ task[h].row.status = "pending"
                /\ cur = [task[h].row EXCEPT !.status = "paid_waiting"]
             \/ /\ task[h].result = "InvalidState"
                /\ ~task[h].wrote
                /\ task[h].row.status # "pending"
                /\ cur = task[h].row

C19_Witness ==
    \E h \in Slots :
       /\ task[h].op = "paid" /\ Ended(h)
       /\ task[h].result = "OK"
       /\ task[h].row.user_id # task[h].from_user
       /\ Stored(task[h].args.int).status = "paid_waiting"

====
